---- MODULE Spec2Model ----
(***************************************************************************)
(* Model of aisupport.py: the AI Customer Support API.                     *)
(*                                                                         *)
(* Texts are TLA+ strings, handled character by character with Len,        *)
(* SubSeq and \o.  The grave accent (ASCII 96) cannot be written in a      *)
(* TLA+ string literal, so TICK stands for it: the fenced-code marker of   *)
(* three grave accents is written FENCE.  No other text of the model       *)
(* contains the character chosen for TICK.                                 *)
(***************************************************************************)
EXTENDS Integers, Sequences, FiniteSets, Bags, TLC

VARIABLES emails_db, analysis_cache, issued, inflight, last, det, fence

vars == <<emails_db, analysis_cache, issued, inflight, last, det, fence>>

-----------------------------------------------------------------------------
(* Python str operations used by the program.                              *)

TICK == "~"
FENCE == TICK \o TICK \o TICK

\* s[i] as a one-character string, "" past the end.
Ch(s, i) == IF i >= 1 /\ i <= Len(s) THEN SubSeq(s, i, i) ELSE ""

ASCII_UPPER == "ABCDEFGHIJKLMNOPQRSTUVWXYZ"
ASCII_LOWER == "abcdefghijklmnopqrstuvwxyz"

\* The lower-case letter of each upper-case letter.
TO_LOWER ==
    [c \in {Ch(ASCII_UPPER, i) : i \in 1..Len(ASCII_UPPER)} |->
        Ch(ASCII_LOWER, CHOOSE i \in 1..Len(ASCII_UPPER) : Ch(ASCII_UPPER, i) = c)]

lower_char(c) == IF c \in DOMAIN TO_LOWER THEN TO_LOWER[c] ELSE c

\* str.lower()
RECURSIVE lower(_)
lower(s) == IF s = "" THEN "" ELSE lower_char(Ch(s, 1)) \o lower(Tail(s))

\* s[i:i+len(word)] == word
occurs_at(s, i, word) ==
    i + Len(word) - 1 <= Len(s) /\ SubSeq(s, i, i + Len(word) - 1) = word

\* str.startswith(prefix)
startswith(s, prefix) == occurs_at(s, 1, prefix)

\* `word in text` for strings: word occurs as a substring of text.
contains(text, word) ==
    \E i \in 1..(Len(text) - Len(word) + 1) : occurs_at(text, i, word)

\* str.find(word, i): the first position from i where word occurs,
\* Len(s) + 1 when there is none.
find(s, i, word) ==
    CHOOSE j \in i..(Len(s) + 1) :
        /\ j = Len(s) + 1 \/ occurs_at(s, j, word)
        /\ \A k \in i..(j - 1) : ~occurs_at(s, k, word)

\* The first position from i whose character is in chars, Len(s) + 1 when
\* there is none.
find_char(s, i, chars) ==
    CHOOSE j \in i..(Len(s) + 1) :
        /\ j = Len(s) + 1 \/ Ch(s, j) \in chars
        /\ \A k \in i..(j - 1) : Ch(s, k) \notin chars

\* str.replace(old, new): every non-overlapping occurrence, leftmost first.
RECURSIVE replace(_, _, _)
replace(s, old, new) ==
    LET j == find(s, 1, old)
    IN  IF j > Len(s) THEN s
        ELSE SubSeq(s, 1, j - 1) \o new
             \o replace(SubSeq(s, j + Len(old), Len(s)), old, new)

WHITESPACE == {" ", "\n", "\t", "\r", "\f"}

\* str.strip(): from the first to the last character that is not whitespace.
strip(s) ==
    LET kept == {i \in 1..Len(s) : Ch(s, i) \notin WHITESPACE}
        first == CHOOSE i \in kept : \A k \in kept : i <= k
        final == CHOOSE i \in kept : \A k \in kept : k <= i
    IN  IF kept = {} THEN "" ELSE SubSeq(s, first, final)

-----------------------------------------------------------------------------
(* JSON values, json.dumps and json.loads.                                 *)
(* A value is a tagged record: a str holds its characters, a num its       *)
(* literal, a list its items, and a dict (obj) its items as a sequence of  *)
(* <<key, value>> pairs in insertion order, as a Python dict keeps them.   *)

JStr(s) == [t |-> "str", v |-> s]
JNum(lit) == [t |-> "num", v |-> lit]
JLit(name) == [t |-> "lit", v |-> name]
JList(items) == [t |-> "list", v |-> items]
JObj(pairs) == [t |-> "obj", v |-> pairs]

has_key(pairs, k) == \E i \in 1..Len(pairs) : pairs[i][1] = k

get_key(pairs, k) == pairs[CHOOSE i \in 1..Len(pairs) : pairs[i][1] = k][2]

\* d[k] = v on a dict: an existing key keeps its place and takes the value.
set_key(pairs, k, v) ==
    IF has_key(pairs, k)
    THEN [i \in 1..Len(pairs) |-> IF pairs[i][1] = k THEN <<k, v>> ELSE pairs[i]]
    ELSE Append(pairs, <<k, v>>)

escape_char(c) ==
    CASE c = "\"" -> "\\\""
      [] c = "\\" -> "\\\\"
      [] c = "\n" -> "\\n"
      [] c = "\t" -> "\\t"
      [] c = "\r" -> "\\r"
      [] OTHER -> c

ESCAPED == {"\"", "\\", "\n", "\t", "\r"}

RECURSIVE escape(_)
escape(s) ==
    LET j == find_char(s, 1, ESCAPED)
    IN  IF j > Len(s) THEN s
        ELSE SubSeq(s, 1, j - 1) \o escape_char(Ch(s, j))
             \o escape(SubSeq(s, j + 1, Len(s)))

\* json.dumps(value) with the default separators ", " and ": ".
RECURSIVE json_dumps(_)
RECURSIVE dumps_items(_)
RECURSIVE dumps_pairs(_)
dumps_items(items) ==
    IF items = <<>> THEN ""
    ELSE json_dumps(Head(items))
         \o (IF Len(items) > 1 THEN ", " ELSE "")
         \o dumps_items(Tail(items))
dumps_pairs(pairs) ==
    IF pairs = <<>> THEN ""
    ELSE "\"" \o escape(Head(pairs)[1]) \o "\": " \o json_dumps(Head(pairs)[2])
         \o (IF Len(pairs) > 1 THEN ", " ELSE "")
         \o dumps_pairs(Tail(pairs))
json_dumps(value) ==
    CASE value.t = "str" -> "\"" \o escape(value.v) \o "\""
      [] value.t = "num" -> value.v
      [] value.t = "lit" -> value.v
      [] value.t = "list" -> "[" \o dumps_items(value.v) \o "]"
      [] value.t = "obj" -> "{" \o dumps_pairs(value.v) \o "}"

\* A parse step returns ok, the value parsed and the position after it.
Parsed(value, pos) == [ok |-> TRUE, val |-> value, pos |-> pos]
ParseFail == [ok |-> FALSE, val |-> JLit("null"), pos |-> 0]

JSON_WS == {" ", "\n", "\t", "\r"}
DIGITS == {"0", "1", "2", "3", "4", "5", "6", "7", "8", "9"}

\* The first position from i that holds no JSON whitespace.
skip_ws(s, i) ==
    CHOOSE j \in i..(Len(s) + 1) :
        /\ Ch(s, j) \notin JSON_WS
        /\ \A k \in i..(j - 1) : Ch(s, k) \in JSON_WS

\* The string body from position i (after the opening quote) to the closing
\* quote.  A raw control character fails (strict mode); the escapes
\* \" \\ \/ \n \t \r are decoded, any other escape is outside the model.
RECURSIVE scan_string(_, _, _)
scan_string(s, i, acc) ==
    LET j == find_char(s, i, {"\"", "\\", "\n", "\t", "\r"})
        c == Ch(s, j)
        e == Ch(s, j + 1)
        got == acc \o SubSeq(s, i, j - 1)
    IN  CASE c = "" -> ParseFail
          [] c = "\"" -> Parsed(got, j + 1)
          [] c \in {"\n", "\t", "\r"} -> ParseFail
          [] c = "\\" ->
                CASE e = "\"" -> scan_string(s, j + 2, got \o "\"")
                  [] e = "\\" -> scan_string(s, j + 2, got \o "\\")
                  [] e = "/" -> scan_string(s, j + 2, got \o "/")
                  [] e = "n" -> scan_string(s, j + 2, got \o "\n")
                  [] e = "t" -> scan_string(s, j + 2, got \o "\t")
                  [] e = "r" -> scan_string(s, j + 2, got \o "\r")
                  [] OTHER -> ParseFail

\* The first position from i whose character is not in chars.
scan_run(s, i, chars) ==
    CHOOSE j \in i..(Len(s) + 1) :
        /\ Ch(s, j) \notin chars
        /\ \A k \in i..(j - 1) : Ch(s, k) \in chars

\* -?(0|[1-9][0-9]*)(\.[0-9]+)? matched at position i; exponents are
\* outside the model.
scan_number(s, i) ==
    LET i0 == IF Ch(s, i) = "-" THEN i + 1 ELSE i
        i1 == IF Ch(s, i0) = "0" THEN i0 + 1 ELSE scan_run(s, i0, DIGITS)
        i2 == IF Ch(s, i1) = "." /\ Ch(s, i1 + 1) \in DIGITS
              THEN scan_run(s, i1 + 1, DIGITS)
              ELSE i1
    IN  IF i1 = i0 THEN ParseFail ELSE Parsed(JNum(SubSeq(s, i, i2 - 1)), i2)

scan_literal(s, i) ==
    CASE occurs_at(s, i, "true") -> Parsed(JLit("true"), i + 4)
      [] occurs_at(s, i, "null") -> Parsed(JLit("null"), i + 4)
      [] occurs_at(s, i, "false") -> Parsed(JLit("false"), i + 5)
      [] OTHER -> ParseFail

RECURSIVE scan_value(_, _)
RECURSIVE scan_members(_, _, _)
RECURSIVE scan_items(_, _, _)

\* JSONObject: i is the position of a key's opening quote.
scan_members(s, i, pairs) ==
    IF Ch(s, i) # "\"" THEN ParseFail
    ELSE LET k == scan_string(s, i + 1, "")
         IN  IF ~k.ok THEN ParseFail
             ELSE LET c == skip_ws(s, k.pos)
                  IN  IF Ch(s, c) # ":" THEN ParseFail
                      ELSE LET v == scan_value(s, skip_ws(s, c + 1))
                           IN  IF ~v.ok THEN ParseFail
                               ELSE LET n == skip_ws(s, v.pos)
                                        got == set_key(pairs, k.val, v.val)
                                    IN  CASE Ch(s, n) = "}" -> Parsed(JObj(got), n + 1)
                                          [] Ch(s, n) = "," ->
                                                scan_members(s, skip_ws(s, n + 1), got)
                                          [] OTHER -> ParseFail

\* JSONArray: i is the position of an item.
scan_items(s, i, items) ==
    LET v == scan_value(s, i)
    IN  IF ~v.ok THEN ParseFail
        ELSE LET n == skip_ws(s, v.pos)
                 got == Append(items, v.val)
             IN  CASE Ch(s, n) = "]" -> Parsed(JList(got), n + 1)
                   [] Ch(s, n) = "," -> scan_items(s, skip_ws(s, n + 1), got)
                   [] OTHER -> ParseFail

scan_value(s, i) ==
    LET c == Ch(s, i)
    IN  CASE c = "\"" ->
                LET r == scan_string(s, i + 1, "")
                IN  IF r.ok THEN Parsed(JStr(r.val), r.pos) ELSE ParseFail
          [] c = "{" ->
                LET n == skip_ws(s, i + 1)
                IN  IF Ch(s, n) = "}" THEN Parsed(JObj(<<>>), n + 1)
                    ELSE scan_members(s, n, <<>>)
          [] c = "[" ->
                LET n == skip_ws(s, i + 1)
                IN  IF Ch(s, n) = "]" THEN Parsed(JList(<<>>), n + 1)
                    ELSE scan_items(s, n, <<>>)
          [] c \in DIGITS \cup {"-"} -> scan_number(s, i)
          [] c \in {"t", "f", "n"} -> scan_literal(s, i)
          [] OTHER -> ParseFail

\* json.loads(text): ok is FALSE where Python raises json.JSONDecodeError
\* (no value, or extra data after it).
json_loads(text) ==
    LET r == scan_value(text, skip_ws(text, 1))
    IN  IF r.ok /\ skip_ws(text, r.pos) = Len(text) + 1
        THEN [ok |-> TRUE, val |-> r.val]
        ELSE [ok |-> FALSE, val |-> JLit("null")]

-----------------------------------------------------------------------------
(* detect_industry: keyword scoring.                                       *)

banking_keywords ==
    <<"account", "bank", "credit", "debit", "loan", "mortgage", "transaction",
      "payment", "balance">>
insurance_keywords ==
    <<"claim", "policy", "premium", "coverage", "accident", "medical", "health",
      "auto insurance">>
it_keywords ==
    <<"password", "login", "vpn", "system", "software", "network", "email",
      "access", "computer">>

\* text = f"{subject} {body}".lower()
detect_text(subject, body) == lower(subject \o " " \o body)

\* sum(1 for word in keywords if word in text)
RECURSIVE keyword_score(_, _)
keyword_score(keywords, text) ==
    IF keywords = <<>> THEN 0
    ELSE (IF contains(text, Head(keywords)) THEN 1 ELSE 0)
         + keyword_score(Tail(keywords), text)

detect_industry_ties_late(subject, body) ==
    LET text == detect_text(subject, body)
        banking_score == keyword_score(banking_keywords, text)
        insurance_score == keyword_score(insurance_keywords, text)
        it_score == keyword_score(it_keywords, text)
    IN  IF banking_score > insurance_score /\ banking_score > it_score
        THEN "banking"
        ELSE IF insurance_score > it_score THEN "insurance"
        ELSE IF it_score > 0 THEN "it_support"
        ELSE "other"

detect_industry(subject, body) ==
    LET text == detect_text(subject, body)
        banking_score == keyword_score(banking_keywords, text)
        insurance_score == keyword_score(insurance_keywords, text)
        it_score == keyword_score(it_keywords, text)
    IN  IF banking_score >= insurance_score /\ banking_score >= it_score
        THEN "banking"
        ELSE IF insurance_score >= it_score THEN "insurance"
        ELSE IF it_score > 0 THEN "it_support"
        ELSE "other"

-----------------------------------------------------------------------------
(* call_gemini_api and the outcomes of the external model.                 *)

\* The static payload call_gemini_api returns when the model call raises.
FALLBACK_ANALYSIS ==
    JObj(<<
      <<"industry", JStr("unknown")>>,
      <<"confidence", JNum("0.5")>>,
      <<"categorization", JObj(<<
          <<"level1", JStr("General")>>,
          <<"level2", JStr("Support")>>,
          <<"level3", JStr("Inquiry")>> >>)>>,
      <<"analysis", JObj(<<
          <<"sentiment", JStr("neutral")>>,
          <<"urgency", JStr("medium")>>,
          <<"summary", JStr("Customer inquiry received")>>,
          <<"customer_type", JStr("individual")>>,
          <<"issue_complexity", JStr("moderate")>> >>)>>,
      <<"suggested_actions", JList(<<
          JObj(<<
            <<"id", JStr("acknowledge")>>,
            <<"label", JStr("Acknowledge Receipt")>>,
            <<"description", JStr("Send acknowledgment to customer")>>,
            <<"api_endpoint", JStr("/api/acknowledge")>>,
            <<"priority", JStr("primary")>> >>) >>)>>,
      <<"initial_reply_draft",
        JStr("Thank you for contacting us. We have received your inquiry and will respond shortly.")>>,
      <<"next_steps", JList(<<JStr("Review inquiry"), JStr("Contact customer")>>)>>,
      <<"estimated_resolution", JStr("24 hours")>> >>)

\* An outcome of model.generate_content(prompt): it raises, or returns text.
Raises == [raises |-> TRUE, text |-> ""]
Returns(text) == [raises |-> FALSE, text |-> text]

\* try: return response.text / except Exception: return json.dumps({...})
call_gemini_api(outcome) ==
    IF outcome.raises THEN json_dumps(FALLBACK_ANALYSIS) ELSE outcome.text

\* Texts the external model answers with.  It is an opaque collaborator:
\* each call may raise or answer any of these, whatever the prompt.
BANK_ANALYSIS ==
    JObj(<<
      <<"industry", JStr("banking")>>,
      <<"confidence", JNum("1")>>,
      <<"categorization", JObj(<<>>)>>,
      <<"analysis", JObj(<< <<"summary", JStr("Card blocked")>> >>)>>,
      <<"suggested_actions", JList(<<>>)>>,
      <<"initial_reply_draft", JStr("Card unblocked.")>>,
      <<"next_steps", JList(<<>>)>>,
      <<"estimated_resolution", JStr("now")>> >>)

ACTION_RESULT ==
    JObj(<<
      <<"tool_response", JObj(<<
          <<"status", JStr("success")>>,
          <<"message", JStr("done")>> >>)>>,
      <<"updated_reply_draft", JStr("Your VPN was reset.")>> >>)

FencedAnalysisText == FENCE \o "json\n" \o json_dumps(BANK_ANALYSIS) \o "\n" \o FENCE
ActionText == json_dumps(ACTION_RESULT)
ProseText == "Sorry, I cannot help with that."

GeminiOutcomes ==
    {Raises, Returns(FencedAnalysisText), Returns(ActionText), Returns(ProseText)}

-----------------------------------------------------------------------------
(* Cleaning of the model output, and the pydantic response models.         *)

\* clean_response = response.strip(), then the two fence replacements
\* (the same lines in analyze_email and in execute_action).
clean_response(response) ==
    LET stripped == strip(response)
        unjson == IF startswith(stripped, FENCE \o "json")
                  THEN replace(replace(stripped, FENCE \o "json\n", ""), "\n" \o FENCE, "")
                  ELSE stripped
    IN  IF startswith(unjson, FENCE)
        THEN replace(replace(unjson, FENCE \o "\n", ""), "\n" \o FENCE, "")
        ELSE unjson

is_str(value) == value.t = "str"
is_number(value) == value.t = "num"
is_dict(value) == value.t = "obj"
is_list(value) == value.t = "list"
is_dict_of_str(value) ==
    is_dict(value) /\ \A i \in 1..Len(value.v) : is_str(value.v[i][2])
is_list_of_str(value) ==
    is_list(value) /\ \A i \in 1..Len(value.v) : is_str(value.v[i])
is_list_of_dict(value) ==
    is_list(value) /\ \A i \in 1..Len(value.v) : is_dict(value.v[i])

\* value[name], or null where the key is missing (no field accepts null).
field(value, name) ==
    IF has_key(value.v, name) THEN get_key(value.v, name) ELSE JLit("null")

\* AnalysisResponse(**value) succeeds: value is a mapping holding every
\* required field with a value of the field's type.  (The coercions pydantic
\* applies to values of other types are outside the outputs drawn here.)
AnalysisResponse_valid(value) ==
    /\ is_dict(value)
    /\ is_str(field(value, "industry"))
    /\ is_number(field(value, "confidence"))
    /\ is_dict_of_str(field(value, "categorization"))
    /\ is_dict(field(value, "analysis"))
    /\ is_list_of_dict(field(value, "suggested_actions"))
    /\ is_str(field(value, "initial_reply_draft"))
    /\ is_list_of_str(field(value, "next_steps"))
    /\ is_str(field(value, "estimated_resolution"))

\* The response body: the model's fields in declaration order.
AnalysisResponse(value) ==
    JObj(<<
      <<"industry", get_key(value.v, "industry")>>,
      <<"confidence", get_key(value.v, "confidence")>>,
      <<"categorization", get_key(value.v, "categorization")>>,
      <<"analysis", get_key(value.v, "analysis")>>,
      <<"suggested_actions", get_key(value.v, "suggested_actions")>>,
      <<"initial_reply_draft", get_key(value.v, "initial_reply_draft")>>,
      <<"next_steps", get_key(value.v, "next_steps")>>,
      <<"estimated_resolution", get_key(value.v, "estimated_resolution")>> >>)

ActionResponse_valid(value) ==
    /\ is_dict(value)
    /\ is_dict(field(value, "tool_response"))
    /\ is_str(field(value, "updated_reply_draft"))

ActionResponse(value) ==
    JObj(<<
      <<"tool_response", get_key(value.v, "tool_response")>>,
      <<"updated_reply_draft", get_key(value.v, "updated_reply_draft")>> >>)

-----------------------------------------------------------------------------
(* The endpoint handlers.                                                  *)
(*                                                                         *)
(* Every handler is an async def whose only await is call_gemini_api, a    *)
(* coroutine that itself awaits nothing (generate_content is the blocking  *)
(* call): awaiting it never yields to the event loop, so a handler runs    *)
(* from its first line to its response without another handler running in  *)
(* between.  Requests that have arrived and whose handler has not run yet  *)
(* wait in inflight; the event loop takes them in any order.               *)

MaxInflight == 2

\* The values str(uuid.uuid4()) takes in the model.
Uuids == {"uuid-a", "uuid-b"}

\* uuid.uuid4(): an identifier it has not returned before.
uuid4 == Uuids \ issued

\* datetime.now().isoformat(): an opaque text no handler reads back.
NOW == "now"

Labels == {"Reset VPN"}

EmailSubmissions ==
    {[op |-> "submit", from_email |-> "a@b.co", subject |-> sb[1], body |-> sb[2]] :
        sb \in {<<"VPN Connection Problem", "my vpn network password">>,
                <<"Hello", "how are you">>}}
AnalysisRequests == {[op |-> "analyze", email_id |-> id] : id \in Uuids}
ActionExecutions ==
    {[op |-> "execute", email_id |-> id, action_id |-> "reset", action_label |-> l] :
        id \in Uuids, l \in Labels}
Requests == EmailSubmissions \cup AnalysisRequests \cup ActionExecutions

\* A response, with what the handler did on the way: the model calls it
\* made (for each, whether the call raised and whether its output parsed).
Ok(body, calls) == [status |-> 200, body |-> body, calls |-> calls]

\* raise HTTPException(status_code=..., detail=...) reaching the client.
HTTPException(status, detail, calls) ==
    [status |-> status, body |-> JObj(<< <<"detail", JStr(detail)>> >>), calls |-> calls]

\* except Exception as e: raise HTTPException(status_code=500, detail=str(e)).
\* text stands for str(e); HTTPException is an Exception, so the handlers'
\* own 404s are caught here as well.
except_Exception_swallowed(text, calls) == Ok(JObj(<<>>), calls)

except_Exception(text, calls) == HTTPException(500, text, calls)

Call(outcome, parsed) == [raised |-> outcome.raises, parsed |-> parsed]

\* return AnalysisResponse(**value)
return_AnalysisResponse(value, calls) ==
    IF ~is_dict(value) THEN except_Exception("TypeError", calls)
    ELSE IF ~AnalysisResponse_valid(value) THEN except_Exception("ValidationError", calls)
    ELSE Ok(AnalysisResponse(value), calls)

\* return ActionResponse(**value)
return_ActionResponse(value, calls) ==
    IF ~is_dict(value) THEN except_Exception("TypeError", calls)
    ELSE IF ~ActionResponse_valid(value) THEN except_Exception("ValidationError", calls)
    ELSE Ok(ActionResponse(value), calls)

\* The record submit_email stores and returns.
email_record_lowered(email_id, email) ==
    [id |-> email_id, from_email |-> email.from_email, subject |-> lower(email.subject),
     body |-> lower(email.body), timestamp |-> NOW,
     industry |-> detect_industry(email.subject, email.body),
     sentiment |-> "neutral", status |-> "new"]

email_record(email_id, email) ==
    [id |-> email_id, from_email |-> email.from_email, subject |-> email.subject,
     body |-> email.body, timestamp |-> NOW,
     industry |-> detect_industry(email.subject, email.body),
     sentiment |-> "neutral", status |-> "new"]

EmailResponse(record) ==
    JObj(<<
      <<"id", JStr(record.id)>>, <<"from_email", JStr(record.from_email)>>,
      <<"subject", JStr(record.subject)>>, <<"body", JStr(record.body)>>,
      <<"timestamp", JStr(record.timestamp)>>, <<"industry", JStr(record.industry)>>,
      <<"sentiment", JStr(record.sentiment)>>, <<"status", JStr(record.status)>> >>)

\* The fallback action_result of execute_action.
fallback_action_result(action_label) ==
    JObj(<<
      <<"tool_response", JObj(<<
          <<"status", JStr("success")>>,
          <<"data", JStr("Action executed successfully")>>,
          <<"message", JStr("Executed " \o action_label)>>,
          <<"timestamp", JStr(NOW)>> >>)>>,
      <<"updated_reply_draft",
        JStr("Thank you for your inquiry. We have processed your request and will respond shortly.")>> >>)

\* The prompt of execute_action reads analysis['industry'] and
\* analysis['analysis']['summary'].
action_prompt_ok(analysis) ==
    /\ is_dict(analysis)
    /\ has_key(analysis.v, "industry")
    /\ is_dict(field(analysis, "analysis"))
    /\ has_key(get_key(analysis.v, "analysis").v, "summary")

\* What each handler computes from one outcome of the model call, tabulated
\* over the outcomes drawn.
\*   analysis_result = json.loads(clean_response)   (analyze_email)
\*   action_result = json.loads(clean_response)     (execute_action)
loads_cleaned == [o \in GeminiOutcomes |-> json_loads(clean_response(call_gemini_api(o)))]

\*   json.loads(await call_gemini_api("Return a simple JSON with basic analysis"))
loads_uncleaned == [o \in GeminiOutcomes |-> json_loads(call_gemini_api(o))]

\* if email_id in analysis_cache
cache_hit_never(email_id) == FALSE

cache_hit(email_id) == email_id \in DOMAIN analysis_cache

\* if email_id not in emails_db: raise HTTPException(status_code=404, ...)
email_known_always(email_id) == TRUE

email_known(email_id) == email_id \in DOMAIN emails_db

Take(request) == inflight (-) SetToBag({request})

Done(request, response, cache) ==
    /\ inflight' = Take(request)
    /\ analysis_cache' = cache
    /\ last' = [op |-> request.op, email_id |-> request.email_id,
                in_db |-> request.email_id \in DOMAIN emails_db,
                in_cache |-> request.email_id \in DOMAIN analysis_cache,
                status |-> response.status, body |-> response.body,
                calls |-> response.calls]
    /\ UNCHANGED <<emails_db, issued, det, fence>>

\* analysis_cache[email_id] = analysis_result
cache_put_dropped(email_id, analysis_result) == analysis_cache

cache_put(email_id, analysis_result) ==
    [id \in DOMAIN analysis_cache \cup {email_id} |->
        IF id = email_id THEN analysis_result ELSE analysis_cache[id]]

\* A request arrives.
Receive(request) ==
    /\ BagCardinality(inflight) < MaxInflight
    /\ inflight' = inflight (+) SetToBag({request})
    /\ UNCHANGED <<emails_db, analysis_cache, issued, last, det, fence>>

\* POST /api/submit-email
submit_email(email) ==
    /\ BagIn(email, inflight)
    /\ email.op = "submit"
    /\ \E email_id \in uuid4 :
          LET record == email_record(email_id, email)
          IN  /\ issued' = issued \cup {email_id}
              /\ emails_db' = [id \in DOMAIN emails_db \cup {email_id} |->
                                  IF id = email_id THEN record ELSE emails_db[id]]
              /\ last' = [op |-> "submit", email_id |-> email_id,
                          in_db |-> email_id \in DOMAIN emails_db,
                          in_cache |-> email_id \in DOMAIN analysis_cache,
                          status |-> 200, body |-> EmailResponse(record),
                          calls |-> <<>>]
    /\ inflight' = Take(email)
    /\ UNCHANGED <<analysis_cache, det, fence>>

\* POST /api/analyze
analyze_email(request) ==
    /\ BagIn(request, inflight)
    /\ request.op = "analyze"
    /\ LET email_id == request.email_id
       IN  IF cache_hit(email_id)
           THEN Done(request, return_AnalysisResponse(analysis_cache[email_id], <<>>),
                     analysis_cache)
           ELSE IF ~email_known(email_id)
           THEN Done(request, except_Exception("404: Email not found", <<>>),
                     analysis_cache)
           ELSE \E first \in GeminiOutcomes :
                  LET parsed == loads_cleaned[first]
                  IN  IF parsed.ok
                      THEN Done(request,
                                return_AnalysisResponse(parsed.val, <<Call(first, TRUE)>>),
                                cache_put(email_id, parsed.val))
                      ELSE \E second \in GeminiOutcomes :
                             LET again == loads_uncleaned[second]
                                 calls == <<Call(first, FALSE), Call(second, again.ok)>>
                             IN  IF again.ok
                                 THEN Done(request,
                                           return_AnalysisResponse(again.val, calls),
                                           cache_put(email_id, again.val))
                                 ELSE Done(request,
                                           except_Exception("JSONDecodeError", calls),
                                           analysis_cache)

\* POST /api/execute-action
execute_action(request) ==
    /\ BagIn(request, inflight)
    /\ request.op = "execute"
    /\ LET email_id == request.email_id
       IN  IF ~email_known(email_id)
           THEN Done(request, except_Exception("404: Email not found", <<>>),
                     analysis_cache)
           ELSE IF ~cache_hit(email_id)
           THEN Done(request, except_Exception("404: Analysis not found", <<>>),
                     analysis_cache)
           ELSE IF ~action_prompt_ok(analysis_cache[email_id])
           THEN Done(request, except_Exception("KeyError", <<>>), analysis_cache)
           ELSE \E outcome \in GeminiOutcomes :
                  LET parsed == loads_cleaned[outcome]
                      calls == <<Call(outcome, parsed.ok)>>
                  IN  IF parsed.ok
                      THEN Done(request, return_ActionResponse(parsed.val, calls),
                                analysis_cache)
                      ELSE Done(request,
                                Ok(ActionResponse(fallback_action_result(request.action_label)),
                                   calls),
                                analysis_cache)

NoProbe == [subject |-> "", body |-> "", industry |-> "unset"]
NoFence == [raw |-> "", json |-> "", before |-> 0, after |-> 0, cleaned |-> "unset"]

\* emails_db = {} and analysis_cache = {} at import; no request has arrived.
ServerInit ==
    /\ emails_db = <<>>
    /\ analysis_cache = <<>>
    /\ issued = {}
    /\ inflight = EmptyBag
    /\ last = [op |-> "none", email_id |-> "", in_db |-> FALSE, in_cache |-> FALSE,
               status |-> 0, body |-> JLit("null"), calls |-> <<>>]

Init ==
    /\ ServerInit
    /\ det = NoProbe
    /\ fence = NoFence

Next ==
    \/ \E request \in Requests : Receive(request)
    \/ \E request \in Requests : submit_email(request)
    \/ \E request \in Requests : analyze_email(request)
    \/ \E request \in Requests : execute_action(request)

Spec == Init /\ [][Next]_vars

-----------------------------------------------------------------------------
(* detect_industry on its own: SpecDetect draws a subject and a body and   *)
(* applies it.                                                             *)

MaxSubjectFragments == 1
MaxBodyFragments == 2

\* Pieces of text the subjects and bodies are put together from: keywords of
\* each list in mixed case, the two halves of "auto insurance", and text
\* that holds no keyword.
Fragments == {"VPN ", "network", " Password", "Bank", "Claim ", "auto", "insurance"}

RECURSIVE Texts(_)
Texts(n) ==
    IF n = 0 THEN {""}
    ELSE LET shorter == Texts(n - 1)
         IN  shorter \cup {t \o f : t \in shorter, f \in Fragments}

InitDetect ==
    /\ ServerInit
    /\ fence = NoFence
    /\ det \in [subject : Texts(MaxSubjectFragments), body : Texts(MaxBodyFragments),
                industry : {"unset"}]

DetectIndustry ==
    /\ det.industry = "unset"
    /\ det' = [det EXCEPT !.industry = detect_industry(det.subject, det.body)]
    /\ UNCHANGED <<emails_db, analysis_cache, issued, inflight, last, fence>>

NextDetect == DetectIndustry

SpecDetect == InitDetect /\ [][NextDetect]_vars

-----------------------------------------------------------------------------
(* The cleaning of a fenced model output on its own: SpecFence draws a     *)
(* JSON text, wraps it in a fence and applies clean_response.              *)

MaxNewlines == 1

JsonTexts ==
    {"{}", "{\"a\": 1}", "[1, 2]", "{\n  \"a\": \"b\"\n}",
     "{\"a\": \"" \o FENCE \o "\"}",
     "{\"a\": \"x\\n" \o FENCE \o "json\\n\"}",
     "\"" \o FENCE \o "\""}

Openers == {FENCE \o "json", FENCE}

RECURSIVE Newlines(_)
Newlines(n) == IF n = 0 THEN "" ELSE "\n" \o Newlines(n - 1)

InitFence ==
    /\ ServerInit
    /\ det = NoProbe
    /\ \E json \in JsonTexts, opener \in Openers, before, after \in 0..MaxNewlines,
          pad \in {"", " ", "\n"} :
          fence = [raw |-> pad \o opener \o Newlines(before) \o json
                           \o Newlines(after) \o FENCE \o pad,
                   json |-> json, before |-> before, after |-> after,
                   cleaned |-> "unset"]

CleanResponse ==
    /\ fence.cleaned = "unset"
    /\ fence' = [fence EXCEPT !.cleaned = clean_response(fence.raw)]
    /\ UNCHANGED <<emails_db, analysis_cache, issued, inflight, last, det>>

NextFence == CleanResponse

SpecFence == InitFence /\ [][NextFence]_vars

-----------------------------------------------------------------------------
(* Properties of the handlers, checked under Spec.                         *)

AnyCallRaised == \E i \in 1..Len(last.calls) : last.calls[i].raised

\* C1: an analyze request for an identifier in neither analysis_cache nor
\* emails_db, and an execute-action request for an identifier missing from
\* emails_db or from analysis_cache, end with a 404 response.
C1_NotFoundIs404 ==
    /\ (last.op = "analyze" /\ ~last.in_cache /\ ~last.in_db) => last.status = 404
    /\ (last.op = "execute" /\ (~last.in_db \/ ~last.in_cache)) => last.status = 404

\* Both model outputs of the last request failed to parse.
DoubleParseFailure == Len(last.calls) = 2 /\ ~last.calls[2].parsed

\* The next step handles an analyze request for the identifier of the
\* analyze request that completed last, a submitted identifier.
SecondAnalyze(request) ==
    /\ last.op = "analyze"
    /\ last.in_db
    /\ request.email_id = last.email_id
    /\ analyze_email(request)

SameResultFromCache ==
    /\ last'.status = last.status
    /\ last'.body = last.body
    /\ last'.calls = <<>>
    /\ analysis_cache' = analysis_cache

\* C4 as stated: of two analyze requests for a submitted identifier issued
\* one after the other, the second returns the result of the first, calls
\* the model not at all and leaves analysis_cache as it is.
C4_SecondIsCacheHit ==
    [][\A request \in AnalysisRequests :
          SecondAnalyze(request) => SameResultFromCache]_vars

\* C4 amended: the same, unless both model outputs of the first request
\* failed to parse (that request ends with a 500 and caches nothing).
C4_SecondIsCacheHitUnlessDoubleFailure ==
    [][\A request \in AnalysisRequests :
          (SecondAnalyze(request) /\ ~DoubleParseFailure) => SameResultFromCache]_vars

\* A second analyze request was answered from the cache with the result
\* stored by an earlier one.
C4_Witness ==
    /\ last.op = "analyze"
    /\ last.in_db /\ last.in_cache
    /\ last.calls = <<>>
    /\ last.status = 200

\* C5: every key of analysis_cache is a key of emails_db.
C5_CacheKeysAreEmails == DOMAIN analysis_cache \subseteq DOMAIN emails_db

\* Both emails are stored, one is analysed, and an execute-action request
\* has completed on it.
C5_Witness ==
    /\ Cardinality(DOMAIN emails_db) = 2
    /\ Cardinality(DOMAIN analysis_cache) = 1
    /\ last.op = "execute" /\ last.in_cache

\* C6: once analysis_cache[id] has a value, no step overwrites or removes it.
C6_CacheEntryNeverChanges ==
    [][\A id \in DOMAIN analysis_cache :
          id \in DOMAIN analysis_cache' /\ analysis_cache'[id] = analysis_cache[id]]_vars

\* An analyze request has just stored the entry of an identifier while
\* another analyze request for the same identifier is in flight.
C6_Witness ==
    /\ last.op = "analyze" /\ ~last.in_cache
    /\ last.email_id \in DOMAIN analysis_cache
    /\ BagIn([op |-> "analyze", email_id |-> last.email_id], inflight)

C8_ModelFailureNotSurfaced ==
    /\ (last.op = "analyze" /\ last.in_db /\ ~last.in_cache /\ AnyCallRaised)
          => last.status = 200
    /\ (last.op = "execute" /\ last.in_db /\ last.in_cache /\ AnyCallRaised)
          => last.status = 200

\* C9: an analyze request makes at most two model calls, the second exactly
\* when the first output fails to parse; when the second output fails to
\* parse too, there is no third call and the request ends with a 500.
C9_AtMostOneRetry ==
    last.op = "analyze" =>
        /\ Len(last.calls) <= 2
        /\ Len(last.calls) = 2 <=> (Len(last.calls) >= 1 /\ ~last.calls[1].parsed)
        /\ DoubleParseFailure => last.status = 500

\* An analyze request whose two model outputs both failed to parse.
C9_Witness ==
    /\ last.op = "analyze"
    /\ DoubleParseFailure
    /\ last.status = 500

\* C11: an analyze request that ends with an error response leaves
\* analysis_cache as it was before the request, also when the model output
\* parses as JSON and is no valid analysis object; hence every entry of
\* analysis_cache is one an analyze request returns successfully.
C11_ErrorLeavesCacheUnchanged ==
    /\ [][\A request \in AnalysisRequests :
             (analyze_email(request) /\ last'.status # 200)
                => analysis_cache' = analysis_cache]_vars
    /\ [](\A id \in DOMAIN analysis_cache :
             return_AnalysisResponse(analysis_cache[id], <<>>).status = 200)

-----------------------------------------------------------------------------
(* Properties of detect_industry, checked under SpecDetect.                *)

Classified == det.industry # "unset"

\* The number of the keywords of a list that occur in a text.
Occurring(keywords, text) ==
    Cardinality({i \in 1..Len(keywords) : contains(text, keywords[i])})

\* The three scores of the lower-cased "subject body" text, in the order
\* banking, insurance, it_support.
Scores ==
    LET text == lower(det.subject \o " " \o det.body)
    IN  <<Occurring(banking_keywords, text), Occurring(insurance_keywords, text),
          Occurring(it_keywords, text)>>

Industries == <<"banking", "insurance", "it_support">>

\* C2: a subject and body holding none of the keywords are tagged "other".
C2_NoKeywordIsOther ==
    (Classified /\ Scores = <<0, 0, 0>>) => det.industry = "other"

\* C3: with at least one keyword in the text, the tag is the industry of
\* the maximal score, the earlier one of banking, insurance, it_support on
\* a tie.
C3_MaxScoreEarliestOnTie ==
    LET score == Scores
    IN  (Classified /\ score # <<0, 0, 0>>) =>
            \E i \in 1..3 :
                /\ det.industry = Industries[i]
                /\ \A j \in 1..3 : score[j] <= score[i]
                /\ \A j \in 1..(i - 1) : score[j] < score[i]

\* vpn, network and password: it_support with score 3 against 0 and 0.
C3_Witness ==
    /\ Classified
    /\ Scores = <<0, 0, 3>>
    /\ det.industry = "it_support"

-----------------------------------------------------------------------------
(* Properties of the cleaning, checked under SpecFence.                    *)

\* C10: a fenced JSON text is cleaned to a text that parses to the object
\* the JSON text alone parses to, with or without newlines inside the fence.
C10_FenceStrippingTransparent ==
    fence.cleaned # "unset" =>
        /\ json_loads(fence.cleaned).ok
        /\ json_loads(fence.cleaned).val = json_loads(fence.json).val

====
